---- MODULE Spec2Model ----
(***************************************************************************)
(* Model of the gallery data service of label-pix-sync                     *)
(* (src/src/services/googleSheets.ts): the GoogleSheetsService singleton,  *)
(* the localStorage slot it reads and writes, the module-level DEMO_IMAGES *)
(* array it hands out by reference, and the Index page handlers that call  *)
(* it.  Strings are TLA+ strings; a CSV body is a sequence of one-character*)
(* strings so that parseCSV can be modelled character by character.        *)
(***************************************************************************)
EXTENDS Integers, Sequences, FiniteSets, TLC

VARIABLES config, localStorage, DEMO_IMAGES, now, last, nCalls, kept, csv, conc, ui

vars == <<config, localStorage, DEMO_IMAGES, now, last, nCalls, kept, csv, conc, ui>>

\* the variables of the service proper
serviceVars == <<config, localStorage, DEMO_IMAGES, now, last, nCalls, kept>>

(***************************************************************************)
(* Bounds                                                                  *)
(***************************************************************************)
MaxCalls == 4
MaxTicks == 1
MaxRows == 3
MaxOps == 3
MaxRequests == 2

(***************************************************************************)
(* Records and the built-in demo data                                      *)
(***************************************************************************)
Img(id, url, label) == [id |-> id, url |-> url, label |-> label]

DemoSet ==
  << Img("1", "https://images.unsplash.com/photo-1506905925346-21bda4d32df4?w=800&h=800&fit=crop", "Mountain Landscape"),
     Img("2", "https://images.unsplash.com/photo-1441974231531-c6227db76b6e?w=800&h=800&fit=crop", "Forest Path"),
     Img("3", "https://images.unsplash.com/photo-1506905925346-21bda4d32df4?w=800&h=800&fit=crop&auto=format&q=80", "Ocean Sunset"),
     Img("4", "https://images.unsplash.com/photo-1518837695005-2083093ee35b?w=800&h=800&fit=crop", "Desert Dunes"),
     Img("5", "https://images.unsplash.com/photo-1501594907352-04cda38ebc29?w=800&h=800&fit=crop", "Tropical Beach"),
     Img("6", "https://images.unsplash.com/photo-1447752875215-b2761acb3c5d?w=800&h=800&fit=crop", "Rolling Hills") >>

(***************************************************************************)
(* JSON text of an array of flat objects: a sequence of objects, each a    *)
(* sequence of <<key, value>> members in insertion order.                  *)
(***************************************************************************)
KeyOrder == <<"id", "url", "label", "comments">>

ObjectText(img) ==
  LET keys == SelectSeq(KeyOrder, LAMBDA k : k \in DOMAIN img)
  IN  [j \in 1..Len(keys) |-> <<keys[j], img[keys[j]]>>]

JSON_stringify(images) == [i \in 1..Len(images) |-> ObjectText(images[i])]

ParseObject(o) ==
  [k \in {o[j][1] : j \in 1..Len(o)} |->
      o[CHOOSE j \in 1..Len(o) :
            o[j][1] = k /\ \A j2 \in (j+1)..Len(o) : o[j2][1] # k][2]]

JSON_parse(text) == [i \in 1..Len(text) |-> ParseObject(text[i])]

(***************************************************************************)
(* The localStorage slot STORAGE_KEY.  kind "null": getItem returns null;  *)
(* kind "corrupt": a stored string on which JSON.parse throws; kind        *)
(* "json": a stored string that parses, with its text.                     *)
(***************************************************************************)
NullItem == [kind |-> "null", text |-> <<>>]
CorruptItem == [kind |-> "corrupt", text |-> <<>>]
JsonItem(text) == [kind |-> "json", text |-> text]

setItem(images) == JsonItem(JSON_stringify(images))

(***************************************************************************)
(* initializeData: whether the promise rejects, the returned array,        *)
(* whether that array is the DEMO_IMAGES object itself, and the slot       *)
(* afterwards.  JSON.parse throws on a corrupt item; the catch block logs  *)
(* and falls through to the demo seed.                                     *)
(***************************************************************************)
parseThrows(stored) == stored.kind = "corrupt"

\* variant: a valid cache entry is ignored and the demo set stored again
initializeData_reseed(stored, demo) ==
  [threw |-> FALSE, ret |-> demo, alias |-> TRUE, store |-> setItem(demo)]

\* variant: JSON.parse outside a try block
initializeData_noCatch(stored, demo) ==
  IF stored.kind = "null"
  THEN [threw |-> FALSE, ret |-> demo, alias |-> TRUE, store |-> setItem(demo)]
  ELSE IF parseThrows(stored)
  THEN [threw |-> TRUE, ret |-> <<>>, alias |-> FALSE, store |-> stored]
  ELSE [threw |-> FALSE, ret |-> JSON_parse(stored.text), alias |-> FALSE, store |-> stored]

initializeData(stored, demo) ==
  IF stored.kind # "null" /\ ~parseThrows(stored)
  THEN [threw |-> FALSE, ret |-> JSON_parse(stored.text), alias |-> FALSE, store |-> stored]
  ELSE [threw |-> FALSE, ret |-> demo, alias |-> TRUE, store |-> setItem(demo)]

(***************************************************************************)
(* Character-level string helpers (String.prototype.split / trim /         *)
(* replace / startsWith) on sequences of one-character strings.            *)
(***************************************************************************)
Whitespace == {" ", "\t", "\r", "\n"}

RECURSIVE split(_, _)
split(s, sep) ==
  IF \E i \in 1..Len(s) : s[i] = sep
  THEN LET i == CHOOSE i \in 1..Len(s) : s[i] = sep /\ \A j \in 1..(i-1) : s[j] # sep
       IN  <<SubSeq(s, 1, i-1)>> \o split(SubSeq(s, i+1, Len(s)), sep)
  ELSE <<s>>

RECURSIVE trim(_)
trim(s) ==
  IF s = <<>> THEN s
  ELSE IF Head(s) \in Whitespace THEN trim(Tail(s))
  ELSE IF s[Len(s)] \in Whitespace THEN trim(SubSeq(s, 1, Len(s)-1))
  ELSE s

stripLeadingQuote(s) == IF s # <<>> /\ Head(s) = "\"" THEN Tail(s) ELSE s

stripTrailingQuote(s) ==
  IF s # <<>> /\ s[Len(s)] = "\"" THEN SubSeq(s, 1, Len(s)-1) ELSE s

cleanCell(cell) == trim(stripTrailingQuote(stripLeadingQuote(cell)))

startsWith(s, prefix) ==
  Len(s) >= Len(prefix) /\ SubSeq(s, 1, Len(prefix)) = prefix

RECURSIVE Str(_)
Str(s) == IF s = <<>> THEN "" ELSE Head(s) \o Str(Tail(s))

\* the k-th destructured cell; a missing cell (undefined) is falsy like ""
cellAt(cells, k) == IF k <= Len(cells) THEN cleanCell(cells[k]) ELSE <<>>

(***************************************************************************)
(* parseCSV.  lines is the split text; i is the source's 0-based loop      *)
(* index, so line i is lines[i+1] here.                                    *)
(***************************************************************************)
\* variant: every row with a non-empty second cell is accepted
parseLine_anyUrl(line, i) ==
  LET cells == split(line, ",")
      id    == cellAt(cells, 1)
      url   == cellAt(cells, 2)
      label == cellAt(cells, 3)
  IN  IF url # <<>>
      THEN << Img(IF id # <<>> THEN Str(id) ELSE ToString(i),
                  Str(url),
                  IF label # <<>> THEN Str(label) ELSE "Untitled") >>
      ELSE <<>>

parseLine(line, i) ==
  LET cells == split(line, ",")
      id    == cellAt(cells, 1)
      url   == cellAt(cells, 2)
      label == cellAt(cells, 3)
  IN  IF url # <<>> /\ startsWith(url, <<"h", "t", "t", "p">>)
      THEN << Img(IF id # <<>> THEN Str(id) ELSE ToString(i),
                  Str(url),
                  IF label # <<>> THEN Str(label) ELSE "Untitled") >>
      ELSE <<>>

RECURSIVE parseFrom(_, _)
parseFrom(lines, i) ==
  IF i >= Len(lines) THEN <<>>
  ELSE LET line == trim(lines[i+1])
       IN  (IF line = <<>> THEN <<>> ELSE parseLine(line, i))
           \o parseFrom(lines, i+1)

parseCSV(csvText) == parseFrom(split(csvText, "\n"), 1)

(***************************************************************************)
(* Array helpers                                                           *)
(***************************************************************************)
\* Array.prototype.findIndex(img => img.id === id), 1-based; 0 for -1
findIndex(images, id) ==
  IF \E i \in 1..Len(images) : images[i].id = id
  THEN CHOOSE i \in 1..Len(images) :
          images[i].id = id /\ \A j \in 1..(i-1) : images[j].id # id
  ELSE 0

\* variant: the record is rebuilt from id, url and the new label
setLabel_rebuild(images, imageIndex, newLabel) ==
  [images EXCEPT ![imageIndex] = Img(@.id, @.url, newLabel)]

\* images[imageIndex].label = newLabel
setLabel(images, imageIndex, newLabel) ==
  [images EXCEPT ![imageIndex] = [@ EXCEPT !.label = newLabel]]

\* variant: removal by position, images.splice(images.findIndex(...), 1),
\* where position -1 removes the last element
filterOut_splice(images, id) ==
  LET k == IF findIndex(images, id) = 0 THEN Len(images) ELSE findIndex(images, id)
  IN  [i \in 1..(Len(images) - (IF Len(images) > 0 THEN 1 ELSE 0)) |->
          IF i < k THEN images[i] ELSE images[i+1]]

\* images.filter(img => img.id !== id)
filterOut(images, id) == SelectSeq(images, LAMBDA img : img.id # id)

(***************************************************************************)
(* The service methods as functions of the state they read.  Each yields   *)
(* the outcome of the returned promise, the value or error, the slot       *)
(* afterwards and the DEMO_IMAGES array afterwards.                        *)
(***************************************************************************)
Resolved(ret, store, demo) ==
  [outcome |-> "resolved", error |-> "", ret |-> ret, store |-> store, demo |-> demo]

Rejected(error, store, demo) ==
  [outcome |-> "rejected", error |-> error, ret |-> <<>>, store |-> store, demo |-> demo]

\* what the fetch of config.sheetUrl produced
NoRequest == [kind |-> "none", body |-> <<>>]
TransportFailure == [kind |-> "transport", body |-> <<>>]
HttpError == [kind |-> "http", body |-> <<>>]
Ok(body) == [kind |-> "ok", body |-> body]

\* an await on a rejected initializeData() rejects the caller's promise
Propagate(r, demo) == Rejected("SyntaxError", r.store, demo)

\* variant: Demo mode serves the built-in list and stores it again
fetchImages_mockOnly(cfg, stored, demo, net) ==
  LET fallback == initializeData(stored, demo)
  IN  IF cfg.useMockData
      THEN Resolved(demo, setItem(demo), demo)
      ELSE IF cfg.sheetUrl = "" \/ net.kind # "ok"
      THEN Resolved(fallback.ret, fallback.store, demo)
      ELSE Resolved(parseCSV(net.body), stored, demo)

fetchImages(cfg, stored, demo, net) ==
  LET fallback == initializeData(stored, demo)
      viaInitialize == IF fallback.threw THEN Propagate(fallback, demo)
                       ELSE Resolved(fallback.ret, fallback.store, demo)
  IN  IF cfg.useMockData
      THEN viaInitialize
      ELSE IF cfg.sheetUrl = "" \/ net.kind # "ok"
      THEN viaInitialize
      ELSE Resolved(parseCSV(net.body), stored, demo)

\* variant: no not-found check before the write
updateImageLabel_unchecked(stored, demo, id, newLabel) ==
  LET r == initializeData(stored, demo)
      images == r.ret
      imageIndex == findIndex(images, id)
      updated == IF imageIndex = 0 THEN images
                 ELSE setLabel(images, imageIndex, newLabel)
  IN  Resolved(<<>>, setItem(updated), IF r.alias THEN updated ELSE demo)

\* variant: the update is applied to a copy of the in-memory list instead
\* of the list read back from the slot
updateImageLabel_stale(stored, demo, id, newLabel) ==
  LET images == demo
      imageIndex == findIndex(images, id)
  IN  IF imageIndex = 0
      THEN Rejected("Image not found", stored, demo)
      ELSE Resolved(<<>>, setItem(setLabel(images, imageIndex, newLabel)), demo)

updateImageLabel(stored, demo, id, newLabel) ==
  LET r == initializeData(stored, demo)
      images == r.ret
      imageIndex == findIndex(images, id)
  IN  IF r.threw THEN Propagate(r, demo)
      ELSE IF imageIndex = 0
      THEN Rejected("Image not found", r.store, demo)
      ELSE LET updated == setLabel(images, imageIndex, newLabel)
           IN  Resolved(<<>>, setItem(updated), IF r.alias THEN updated ELSE demo)

addImage(stored, demo, clock, url, label) ==
  LET r == initializeData(stored, demo)
      newImage == Img(ToString(clock), url, label)
      pushed == Append(r.ret, newImage)
  IN  IF r.threw THEN Propagate(r, demo)
      ELSE Resolved(<<newImage>>, setItem(pushed), IF r.alias THEN pushed ELSE demo)

deleteImage(stored, demo, id) ==
  LET r == initializeData(stored, demo)
  IN  IF r.threw THEN Propagate(r, demo)
      ELSE Resolved(<<>>, setItem(filterOut(r.ret, id)), demo)

setSheetUrl(cfg, url) == [cfg EXCEPT !.sheetUrl = url, !.useMockData = FALSE]

resetToDemo(cfg) == [cfg EXCEPT !.useMockData = TRUE]

\* Index.handleUpdateComments awaits googleSheetsService.updateImageComments,
\* a method class GoogleSheetsService (lines 49-178) does not define: the call
\* throws a TypeError inside the try block, which the catch rethrows as
\* 'Failed to update comments'.  Nothing is read or written.
handleUpdateComments(stored, demo, id, newComments) ==
  Rejected("Failed to update comments", stored, demo)

(***************************************************************************)
(* Inputs                                                                  *)
(***************************************************************************)
Epoch == 1000

Ids == {"1", "2", "404"}
Labels == {"A", "B"}
Comments == {"note2"}
DeleteIds == {"1", "404"}
NewUrls == {"http://new"}
NewLabels == {"N"}
Endpoint == "https://docs.google.com/spreadsheets/d/e/abc/pub?output=csv"
SheetUrls == {"", Endpoint}

\* "h\n7,http,F\n"
BodyA == <<"h", "\n", "7", ",", "h", "t", "t", "p", ",", "F", "\n">>
\* "h\n1,httpa,X\n,httpb,\n2,no,Z"
BodyB == <<"h", "\n", "1", ",", "h", "t", "t", "p", "a", ",", "X", "\n",
           ",", "h", "t", "t", "p", "b", ",", "\n", "2", ",", "n", "o", ",", "Z">>
Bodies == {BodyA, BodyB}
Responses == {TransportFailure, HttpError} \cup {Ok(b) : b \in Bodies}

\* snapshots an earlier page session may have left in the slot
StoredBefore ==
  { <<>>,
    DemoSet,
    << [id |-> "1", url |-> "http://one", label |-> "Old", comments |-> "note"],
       Img("2", "http://two", "Two") >> }

InitialItems == {NullItem, CorruptItem} \cup {setItem(s) : s \in StoredBefore}

(***************************************************************************)
(* State machine.  last records the most recent completed call: its        *)
(* arguments, what it returned and the state it started from.              *)
(***************************************************************************)
NoPrev == [op |-> "none", id |-> "", label |-> "", outcome |-> "none", fetched |-> <<>>]

NoCall ==
  [op |-> "none", id |-> "", label |-> "", url |-> "", net |-> NoRequest,
   outcome |-> "none", error |-> "", ret |-> <<>>,
   pre |-> NullItem, preDemo |-> <<>>, preConfig |-> [useMockData |-> TRUE, sheetUrl |-> ""],
   prev |-> NoPrev]

Call(op, id, label, url, net, res) ==
  [op |-> op, id |-> id, label |-> label, url |-> url, net |-> net,
   outcome |-> res.outcome, error |-> res.error, ret |-> res.ret,
   pre |-> localStorage, preDemo |-> DEMO_IMAGES, preConfig |-> config,
   prev |-> [op |-> last.op, id |-> last.id, label |-> last.label,
             outcome |-> last.outcome,
             fetched |-> IF last.op = "fetchImages" THEN last.ret ELSE <<>>]]

\* kept[id] is the label a successful updateImageLabel gave record id in
\* Demo mode and that no later update of id, delete of id or reset has
\* superseded; "" when there is none
NoneKept == [id \in Ids |-> ""]

Keep(op, id, label, res) ==
  IF op = "resetToDemo" THEN NoneKept
  ELSE IF op = "deleteImage" /\ id \in Ids THEN [kept EXCEPT ![id] = ""]
  ELSE IF op = "updateImageLabel" /\ res.outcome = "resolved"
  THEN [kept EXCEPT ![id] = IF config.useMockData THEN label ELSE ""]
  ELSE kept

\* no response body has been read yet
NoText == [phase |-> "idle", doc |-> <<>>, trailing |-> FALSE, text |-> <<>>, images |-> <<>>]

\* no call issued yet, no continuation queued
NoCalls ==
  [calls |-> <<>>, queue |-> <<>>, sync |-> FALSE,
   resets |-> 0, raced |-> {}, sinceReset |-> 0]

\* what a handler of the page leaves behind for inspection
NoEvent ==
  [op |-> "none", editor |-> "", id |-> "", label |-> "", outcome |-> "",
   sheetId |-> "", images |-> <<>>, selected |-> <<>>, shown |-> "",
   config |-> [useMockData |-> TRUE, sheetUrl |-> ""], loads |-> 0,
   updating |-> FALSE, toast |-> ""]

\* ImageCard state: useState(false), useState(image.label), useState(false)
CardState(isEditing, editedLabel, isUpdating) ==
  [isEditing |-> isEditing, editedLabel |-> editedLabel, isUpdating |-> isUpdating]

\* ImageModal state
ModalState(isEditingLabel, isEditingComments, editedLabel, editedComments, isUpdating) ==
  [isEditingLabel |-> isEditingLabel, isEditingComments |-> isEditingComments,
   editedLabel |-> editedLabel, editedComments |-> editedComments,
   isUpdating |-> isUpdating]

\* the cards whose controls are exercised
UiIds == {"1"}

NoCard == CardState(FALSE, "", FALSE)
NoModal == ModalState(FALSE, FALSE, "", "", FALSE)

\* loadImages as started by the mount effect, in the service's initial mode
MountLoad == [useMockData |-> TRUE, sheetUrl |-> "", refresh |-> FALSE]

\* Index after mount: images [], loading true, the effect's loadImages begun
PageMounted ==
  [images |-> <<>>, loading |-> TRUE, refreshing |-> FALSE,
   loads |-> <<MountLoad>>, selected |-> <<>>,
   cards |-> [id \in UiIds |-> NoCard], modal |-> NoModal,
   updates |-> <<>>, ev |-> NoEvent, nRequests |-> 0]

Init ==
  /\ csv = NoText
  /\ conc = NoCalls
  /\ ui = PageMounted
  /\ config = [useMockData |-> TRUE, sheetUrl |-> ""]
  /\ localStorage \in InitialItems
  /\ DEMO_IMAGES = DemoSet
  /\ now = Epoch
  /\ last = NoCall
  /\ nCalls = 0
  /\ kept = NoneKept

Apply(op, id, label, url, net, res) ==
  /\ localStorage' = res.store
  /\ DEMO_IMAGES' = res.demo
  /\ last' = Call(op, id, label, url, net, res)
  /\ nCalls' = nCalls + 1
  /\ kept' = Keep(op, id, label, res)
  /\ UNCHANGED <<csv, conc, ui>>

InitializeData ==
  /\ nCalls < MaxCalls
  /\ LET r == initializeData(localStorage, DEMO_IMAGES)
     IN  Apply("initializeData", "", "", "", NoRequest,
               IF r.threw THEN Propagate(r, DEMO_IMAGES)
               ELSE Resolved(r.ret, r.store, DEMO_IMAGES))
  /\ UNCHANGED <<config, now>>

FetchImages ==
  /\ nCalls < MaxCalls
  /\ \E net \in (IF config.useMockData \/ config.sheetUrl = ""
                 THEN {NoRequest} ELSE Responses) :
        Apply("fetchImages", "", "", "", net,
              fetchImages(config, localStorage, DEMO_IMAGES, net))
  /\ UNCHANGED <<config, now>>

UpdateImageLabel ==
  /\ nCalls < MaxCalls
  /\ \E id \in Ids, newLabel \in Labels :
        Apply("updateImageLabel", id, newLabel, "", NoRequest,
              updateImageLabel(localStorage, DEMO_IMAGES, id, newLabel))
  /\ UNCHANGED <<config, now>>

HandleUpdateComments ==
  /\ nCalls < MaxCalls
  /\ \E id \in Ids, newComments \in Comments :
        Apply("updateImageComments", id, newComments, "", NoRequest,
              handleUpdateComments(localStorage, DEMO_IMAGES, id, newComments))
  /\ UNCHANGED <<config, now>>

\* Date.now() reads the millisecond clock: the value of the previous reading,
\* or a later one
AddImage ==
  /\ nCalls < MaxCalls
  /\ \E clock \in now..(now + 1), url \in NewUrls, label \in NewLabels :
        /\ clock <= Epoch + MaxTicks
        /\ now' = clock
        /\ Apply("addImage", "", label, url, NoRequest,
                 addImage(localStorage, DEMO_IMAGES, clock, url, label))
  /\ UNCHANGED config

DeleteImage ==
  /\ nCalls < MaxCalls
  /\ \E id \in DeleteIds :
        Apply("deleteImage", id, "", "", NoRequest,
              deleteImage(localStorage, DEMO_IMAGES, id))
  /\ UNCHANGED <<config, now>>

SetSheetUrl ==
  /\ nCalls < MaxCalls
  /\ \E url \in SheetUrls :
        /\ config' = setSheetUrl(config, url)
        /\ Apply("setSheetUrl", "", "", url, NoRequest,
                 Resolved(<<>>, localStorage, DEMO_IMAGES))
  /\ UNCHANGED now

ResetToDemo ==
  /\ nCalls < MaxCalls
  /\ config' = resetToDemo(config)
  /\ Apply("resetToDemo", "", "", "", NoRequest,
           Resolved(<<>>, NullItem, DEMO_IMAGES))
  /\ UNCHANGED now

Next ==
  \/ InitializeData
  \/ FetchImages
  \/ UpdateImageLabel
  \/ HandleUpdateComments
  \/ AddImage
  \/ DeleteImage
  \/ SetSheetUrl
  \/ ResetToDemo

Spec == Init /\ [][Next]_vars

(***************************************************************************)
(* The remote branch of fetchImages in isolation: a response body is read  *)
(* (response.text()) and handed to parseCSV.  A body is built from a       *)
(* header line and up to MaxRows further lines; every cell carries its     *)
(* text as sent (raw) next to the value it denotes (val, and whether that  *)
(* value begins with http), so that the outcome of parseCSV on the text    *)
(* can be compared with the records the lines denote.                      *)
(***************************************************************************)
Cell(raw, val, http) == [raw |-> raw, val |-> val, http |-> http]

EmptyCell == Cell(<<>>, "", FALSE)

IdCells == {EmptyCell, Cell(<<"7">>, "7", FALSE)}

UrlCells ==
  { EmptyCell,
    Cell(<<"\"", "h", "t", "t", "p", "x", "\"">>, "httpx", TRUE),
    Cell(<<"n", "o">>, "no", FALSE) }

LabelCells == {EmptyCell, Cell(<<" ", "F">>, "F", FALSE)}

\* a line is a sequence of cells; <<>> is an empty line
Rows ==
  {<<i, u, l>> : i \in IdCells, u \in UrlCells, l \in LabelCells}
    \cup {<<EmptyCell, Cell(<<" ", "h", "t", "t", "p">>, "http", TRUE)>>}
    \cup {<<Cell(<<"7">>, "7", FALSE)>>}
    \cup {<<EmptyCell, Cell(<<" ", "h", "t", "t", "p">>, "http", TRUE),
            EmptyCell, Cell(<<"c">>, "c", FALSE)>>}

BlankLines == { <<>>, <<" ">>, <<"\r">> }

Line(kind, row, blank) == [kind |-> kind, row |-> row, blank |-> blank]

Lines ==
  {Line("row", r, <<>>) : r \in Rows} \cup {Line("blank", <<>>, b) : b \in BlankLines}

RECURSIVE SeqsUpTo(_, _)
SeqsUpTo(S, n) ==
  IF n = 0 THEN {<<>>}
  ELSE LET shorter == SeqsUpTo(S, n - 1)
       IN  shorter \cup {Append(d, x) : d \in {e \in shorter : Len(e) = n - 1}, x \in S}

\* the bodies of up to n lines after the header
Documents(n) == SeqsUpTo(Lines, n)

HeaderLine == <<"I", "D", ",", "U", "R", "L">>

RECURSIVE RowText(_)
RowText(row) ==
  IF row = <<>> THEN <<>>
  ELSE IF Len(row) = 1 THEN row[1].raw
  ELSE row[1].raw \o <<",">> \o RowText(Tail(row))

LineText(line) == IF line.kind = "blank" THEN line.blank ELSE RowText(line.row)

RECURSIVE BodyText(_)
BodyText(doc) ==
  IF doc = <<>> THEN <<>> ELSE <<"\n">> \o LineText(Head(doc)) \o BodyText(Tail(doc))

\* the text of the response: header, lines, optional final line break
Text(doc, trailing) ==
  HeaderLine \o BodyText(doc) \o (IF trailing THEN <<"\n">> ELSE <<>>)

\* const csvText = await response.text()
ResponseText ==
  /\ csv.phase = "idle"
  /\ \E doc \in Documents(MaxRows), trailing \in BOOLEAN :
        csv' = [phase |-> "text", doc |-> doc, trailing |-> trailing,
                text |-> Text(doc, trailing), images |-> <<>>]
  /\ UNCHANGED <<serviceVars, conc, ui>>

\* return this.parseCSV(csvText)
ParseCSV ==
  /\ csv.phase = "text"
  /\ csv' = [csv EXCEPT !.phase = "parsed", !.images = parseCSV(csv.text)]
  /\ UNCHANGED <<serviceVars, conc, ui>>

InitCsv ==
  /\ csv = NoText
  /\ conc = NoCalls
  /\ ui = PageMounted
  /\ config = [useMockData |-> FALSE, sheetUrl |-> Endpoint]
  /\ localStorage = NullItem
  /\ DEMO_IMAGES = DemoSet
  /\ now = Epoch
  /\ last = NoCall
  /\ nCalls = 0
  /\ kept = NoneKept

NextCsv ==
  \/ ResponseText
  \/ ParseCSV

SpecCsv == InitCsv /\ [][NextCsv]_vars

(***************************************************************************)
(* The service under overlapping calls.  An async method runs up to its    *)
(* first await inside the caller's synchronous run; for updateImageLabel,  *)
(* addImage and deleteImage that is the whole of initializeData(), the     *)
(* cache read included.  The rest of the method is a continuation on the   *)
(* microtask queue: continuations run in the order queued, after the       *)
(* caller's synchronous run has ended and before any other task.           *)
(* updateImageLabel then waits on a 500 ms timer before it resolves.       *)
(* resetToDemo and initializeData have no await.                           *)
(***************************************************************************)
ConcUpdates == { <<"1", "A">>, <<"2", "B">>, <<"404", "A">> }
ConcDeleteIds == {"1"}

\* a call suspended at `const images = await this.initializeData()`
Suspended(op, id, label, url, r, during) ==
  [op |-> op, id |-> id, label |-> label, url |-> url,
   pc |-> "read", outcome |-> "pending", error |-> "",
   images |-> IF r.alias THEN <<>> ELSE r.ret, alias |-> r.alias,
   during |-> during, wrote |-> NullItem, atDone |-> NullItem,
   ret |-> <<>>, resets |-> 0, racedDone |-> FALSE, sinceReset |-> 0]

\* calls issued and not yet settled
InFlight == {k \in 1..Len(conc.calls) : conc.calls[k].pc \in {"read", "wait"}}

\* caller code can run: a synchronous run is going on, or no continuation
\* is waiting for it to end
MayRun == conc.sync \/ conc.queue = <<>>

Budget == Len(conc.calls) + conc.resets < MaxOps

Issue(op, id, label, url) ==
  /\ Budget
  /\ LET r == initializeData(localStorage, DEMO_IMAGES)
     IN  /\ localStorage' = r.store
         /\ conc' = [conc EXCEPT
               !.calls = Append(@, Suspended(op, id, label, url, r, InFlight)),
               !.queue = Append(@, Len(conc.calls) + 1),
               !.sync = TRUE,
               !.sinceReset = @ + 1]
  /\ UNCHANGED <<config, DEMO_IMAGES, now, last, nCalls, kept, csv, ui>>

IssueUpdateImageLabel ==
  /\ MayRun
  /\ \E u \in ConcUpdates : Issue("updateImageLabel", u[1], u[2], "")

IssueAddImage ==
  /\ MayRun
  /\ \E url \in NewUrls, label \in NewLabels : Issue("addImage", "", label, url)

IssueDeleteImage ==
  /\ MayRun
  /\ \E id \in ConcDeleteIds : Issue("deleteImage", id, "", "")

\* initializeData() called on its own: it settles within the caller's run
CallInitializeData ==
  /\ MayRun
  /\ Budget
  /\ LET r == initializeData(localStorage, DEMO_IMAGES)
         c == [Suspended("initializeData", "", "", "", r, InFlight) EXCEPT
                 !.pc = "done", !.outcome = "resolved", !.images = <<>>,
                 !.ret = r.ret, !.wrote = r.store, !.atDone = r.store,
                 !.resets = conc.resets, !.sinceReset = conc.sinceReset,
                 !.racedDone = /\ conc.raced # {}
                               /\ \A k \in conc.raced : conc.calls[k].pc = "done"]
     IN  /\ localStorage' = r.store
         /\ conc' = [conc EXCEPT !.calls = Append(@, c), !.sinceReset = @ + 1]
  /\ UNCHANGED <<config, DEMO_IMAGES, now, last, nCalls, kept, csv, ui>>

\* resetToDemo(); the calls it finds between their read and their write
\* are noted in raced
CallResetToDemo ==
  /\ MayRun
  /\ Budget
  /\ config' = resetToDemo(config)
  /\ localStorage' = NullItem
  /\ conc' = [conc EXCEPT
        !.resets = @ + 1,
        !.raced = {k \in 1..Len(conc.calls) : conc.calls[k].pc = "read"},
        !.sinceReset = 0]
  /\ UNCHANGED <<DEMO_IMAGES, now, last, nCalls, kept, csv, ui>>

\* the part of a method after `await this.initializeData()`; images is the
\* array the call got: its own parsed copy, or DEMO_IMAGES itself
continuation(c, stored, demo, clock) ==
  LET images == IF c.alias THEN demo ELSE c.images
      imageIndex == findIndex(images, c.id)
      written == IF c.op = "updateImageLabel" THEN setLabel(images, imageIndex, c.label)
                 ELSE IF c.op = "addImage"
                 THEN Append(images, Img(ToString(clock), c.url, c.label))
                 ELSE filterOut(images, c.id)
  IN  IF c.op = "updateImageLabel" /\ imageIndex = 0
      THEN [call |-> [c EXCEPT !.pc = "done", !.outcome = "rejected",
                               !.error = "Image not found", !.atDone = stored],
            store |-> stored, demo |-> demo]
      ELSE [call |-> [c EXCEPT
                        !.pc = IF c.op = "updateImageLabel" THEN "wait" ELSE "done",
                        !.outcome = IF c.op = "updateImageLabel" THEN "pending" ELSE "resolved",
                        !.wrote = setItem(written),
                        !.atDone = setItem(written),
                        !.ret = IF c.op = "addImage"
                                THEN <<Img(ToString(clock), c.url, c.label)>> ELSE <<>>],
            store |-> setItem(written),
            demo |-> IF c.alias /\ c.op # "deleteImage" THEN written ELSE demo]

\* the first queued continuation runs
Continue ==
  /\ conc.queue # <<>>
  /\ LET k == Head(conc.queue)
     IN  \E clock \in now..(now + 1) :
            /\ clock <= Epoch + MaxTicks
            /\ (conc.calls[k].op # "addImage" => clock = now)
            /\ now' = clock
            /\ LET res == continuation(conc.calls[k], localStorage, DEMO_IMAGES, clock)
               IN  /\ localStorage' = res.store
                   /\ DEMO_IMAGES' = res.demo
                   /\ conc' = [conc EXCEPT !.calls[k] = res.call,
                                           !.queue = Tail(@),
                                           !.sync = FALSE]
  /\ UNCHANGED <<config, last, nCalls, kept, csv, ui>>

\* the 500 ms timer of the earliest waiting updateImageLabel fires and the
\* call resolves
TimerFires ==
  /\ conc.queue = <<>>
  /\ \E k \in InFlight :
        /\ conc.calls[k].pc = "wait"
        /\ \A j \in InFlight : conc.calls[j].pc = "wait" => k <= j
        /\ conc' = [conc EXCEPT !.calls[k] = [@ EXCEPT !.pc = "done",
                                                      !.outcome = "resolved",
                                                      !.atDone = localStorage],
                                !.sync = FALSE]
  /\ UNCHANGED <<serviceVars, csv, ui>>

InitConc ==
  /\ conc = NoCalls
  /\ csv = NoText
  /\ ui = PageMounted
  /\ config = [useMockData |-> TRUE, sheetUrl |-> ""]
  /\ localStorage \in InitialItems
  /\ DEMO_IMAGES = DemoSet
  /\ now = Epoch
  /\ last = NoCall
  /\ nCalls = 0
  /\ kept = NoneKept

NextConc ==
  \/ IssueUpdateImageLabel
  \/ IssueAddImage
  \/ IssueDeleteImage
  \/ CallInitializeData
  \/ CallResetToDemo
  \/ Continue
  \/ TimerFires

SpecConc == InitConc /\ [][NextConc]_vars

(***************************************************************************)
(* Vocabulary of the properties                                            *)
(***************************************************************************)
IsSnapshot(images) ==
  \A i \in 1..Len(images) : {"id", "url", "label"} \subseteq DOMAIN images[i]

\* the snapshot a slot holds, when it holds one
Persisted(item) == JSON_parse(item.text)

\* the snapshot the cache stands for: its content, or the given demo set
\* when it is absent or corrupt
CacheBacked(item, demo) == IF item.kind = "json" THEN Persisted(item) ELSE demo

IdsOf(images) == {images[i].id : i \in 1..Len(images)}

RemoteFetchFailed ==
  /\ last.op = "fetchImages"
  /\ ~last.preConfig.useMockData
  /\ (last.preConfig.sheetUrl = "" \/ last.net.kind \in {"transport", "http"})

RemoteFetchSucceeded ==
  /\ last.op = "fetchImages"
  /\ ~last.preConfig.useMockData
  /\ last.preConfig.sheetUrl # ""
  /\ last.net.kind = "ok"

(***************************************************************************)
(* C1: fetchImages never fails to its caller, whatever the configuration,  *)
(* the cache content and the remote outcome: it resolves with a snapshot;  *)
(* and in Remote mode, when the remote fetch fails, it returns the         *)
(* snapshot held in the cache, or the built-in demo set if the cache is    *)
(* absent or corrupt.                                                      *)
(***************************************************************************)
C1_FetchNeverFails ==
  last.op = "fetchImages" =>
    /\ last.outcome = "resolved"
    /\ IsSnapshot(last.ret)
    /\ RemoteFetchFailed => last.ret = CacheBacked(last.pre, DemoSet)

(***************************************************************************)
(* C2: after a fetchImages call in Remote mode whose remote fetch          *)
(* succeeds, the cache holds exactly the fetched snapshot.                 *)
(***************************************************************************)
C2_FetchedSnapshotPersisted ==
  RemoteFetchSucceeded =>
    /\ localStorage.kind = "json"
    /\ Persisted(localStorage) = last.ret

(***************************************************************************)
(* C3: resetToDemo followed by fetchImages returns exactly the built-in    *)
(* 6-record demo set, whatever calls came before and whatever the cache    *)
(* held.                                                                   *)
(***************************************************************************)
C3_ResetThenFetchIsDemo ==
  (last.op = "fetchImages" /\ last.prev.op = "resetToDemo") => last.ret = DemoSet

(***************************************************************************)
(* C4 as stated: updateLabel with an id that is not in the cache-backed    *)
(* snapshot fails with a not-found error and leaves the slot as it was,    *)
(* for an absent, a corrupt and a valid cache alike.                       *)
(***************************************************************************)
UpdateOfMissingId ==
  /\ last.op = "updateImageLabel"
  /\ last.id \notin IdsOf(CacheBacked(last.pre, last.preDemo))

C4_NotFoundLeavesSlotUnchanged ==
  UpdateOfMissingId =>
    /\ last.outcome = "rejected"
    /\ last.error = "Image not found"
    /\ localStorage = last.pre

(***************************************************************************)
(* C4 amended: updateLabel with an id that is not in the cache-backed      *)
(* snapshot fails with a not-found error; a valid cache is left unchanged, *)
(* and an absent or corrupt cache is replaced by the demo array that       *)
(* initialize seeds.                                                       *)
(***************************************************************************)
C4_NotFoundKeepsValidCache ==
  UpdateOfMissingId =>
    /\ last.outcome = "rejected"
    /\ last.error = "Image not found"
    /\ last.pre.kind = "json" => localStorage = last.pre
    /\ last.pre.kind # "json" =>
          localStorage.kind = "json" /\ Persisted(localStorage) = last.preDemo

C4_Witness ==
  /\ UpdateOfMissingId
  /\ last.pre.kind = "json"
  /\ Len(Persisted(last.pre)) > 0
  /\ last.outcome = "rejected"

(***************************************************************************)
(* C5: after a successful updateLabel(id, newLabel) the persisted snapshot *)
(* is the one the call started from (the cache content, or the seeded demo *)
(* array where there was no valid cache) with only the label of the record *)
(* with that id changed: same number and order of records, every other     *)
(* record equal, id, url and comments of the updated record equal, and     *)
(* the configuration unchanged.                                            *)
(***************************************************************************)
FirstWithId(images, id) ==
  CHOOSE k \in 1..Len(images) :
     images[k].id = id /\ \A j \in 1..(k-1) : images[j].id # id

C5_UpdateLabelFrame ==
  (last.op = "updateImageLabel" /\ last.outcome = "resolved") =>
    LET before == CacheBacked(last.pre, last.preDemo)
        after  == Persisted(localStorage)
    IN  /\ localStorage.kind = "json"
        /\ last.id \in IdsOf(before)
        /\ Len(after) = Len(before)
        /\ LET k == FirstWithId(before, last.id)
           IN  /\ \A i \in 1..Len(before) : i # k => after[i] = before[i]
               /\ after[k].label = last.label
               /\ after[k].id = before[k].id
               /\ after[k].url = before[k].url
               /\ DOMAIN after[k] = DOMAIN before[k]
               /\ "comments" \in DOMAIN before[k] =>
                     after[k].comments = before[k].comments
        /\ config = last.preConfig

C5_Witness ==
  /\ last.op = "updateImageLabel"
  /\ last.outcome = "resolved"
  /\ last.pre.kind = "json"
  /\ \E k \in 1..Len(Persisted(localStorage)) :
        /\ Persisted(localStorage)[k].id = last.id
        /\ "comments" \in DOMAIN Persisted(localStorage)[k]
        /\ Persisted(last.pre)[k].label # last.label

(***************************************************************************)
(* C6: two updateLabel calls on two different existing ids, the second     *)
(* issued after the first completed with no call in between: the persisted *)
(* snapshot after the second holds both new labels.                        *)
(***************************************************************************)
LabelOf(images, id) == images[FirstWithId(images, id)].label

TwoUpdatesInARow ==
  /\ last.op = "updateImageLabel" /\ last.outcome = "resolved"
  /\ last.prev.op = "updateImageLabel" /\ last.prev.outcome = "resolved"
  /\ last.prev.id # last.id

C6_SequentialUpdatesBothLand ==
  TwoUpdatesInARow =>
    /\ localStorage.kind = "json"
    /\ {last.id, last.prev.id} \subseteq IdsOf(Persisted(localStorage))
    /\ LabelOf(Persisted(localStorage), last.prev.id) = last.prev.label
    /\ LabelOf(Persisted(localStorage), last.id) = last.label

C6_Witness == TwoUpdatesInARow /\ last.prev.label # last.label

(***************************************************************************)
(* C7: updateComments(id, newComments) has the contract of updateLabel for *)
(* the comments field: on an existing id it succeeds and the persisted     *)
(* snapshot then holds newComments for that record; on an absent id it     *)
(* fails with a not-found error.                                           *)
(***************************************************************************)
C7_UpdateCommentsContract ==
  last.op = "updateImageComments" =>
    IF last.id \in IdsOf(CacheBacked(last.pre, last.preDemo))
    THEN /\ last.outcome = "resolved"
         /\ localStorage.kind = "json"
         /\ LET rec == Persisted(localStorage)[FirstWithId(Persisted(localStorage), last.id)]
            IN  "comments" \in DOMAIN rec /\ rec.comments = last.label
    ELSE /\ last.outcome = "rejected"
         /\ last.error = "Image not found"

(***************************************************************************)
(* C8: initialize is idempotent: two consecutive initialize calls return   *)
(* equal snapshots (by value and order), the slot after the second equals  *)
(* the slot after the first, and a valid cache entry is returned and not   *)
(* overwritten with the demo set.                                          *)
(***************************************************************************)
C8_InitializeIdempotent ==
  /\ [](last.op = "initializeData" /\ last.pre.kind = "json" =>
          /\ last.outcome = "resolved"
          /\ last.ret = Persisted(last.pre)
          /\ localStorage = last.pre)
  /\ [][(last.op = "initializeData" /\ last'.op = "initializeData"
            /\ nCalls' = nCalls + 1) =>
          /\ last'.outcome = "resolved"
          /\ last'.ret = last.ret
          /\ localStorage' = localStorage]_vars

C8_Witness ==
  /\ last.op = "initializeData"
  /\ last.prev.op = "initializeData"
  /\ Persisted(localStorage) # DemoSet
  /\ Len(last.ret) > 0

(***************************************************************************)
(* C9: a corrupt cache entry is never surfaced as an error: initialize and *)
(* every operation that reads the cache through it (fetchImages,           *)
(* updateLabel, addImage, deleteImage) behaves as on an absent cache, and  *)
(* after initialize the cache holds the demo set and the demo set is       *)
(* returned.                                                               *)
(***************************************************************************)
ReadsCacheFromCorrupt ==
  /\ last.pre.kind = "corrupt"
  /\ last.op \in {"initializeData", "fetchImages", "updateImageLabel",
                  "addImage", "deleteImage"}
  /\ ~RemoteFetchSucceeded

\* what the same call yields when the slot is absent
OnAbsentCache ==
  CASE last.op = "initializeData" ->
         Resolved(DemoSet, setItem(DemoSet), last.preDemo)
    [] last.op = "fetchImages" ->
         fetchImages(last.preConfig, NullItem, last.preDemo, last.net)
    [] last.op = "updateImageLabel" ->
         updateImageLabel(NullItem, last.preDemo, last.id, last.label)
    [] last.op = "addImage" ->
         addImage(NullItem, last.preDemo, now, last.url, last.label)
    [] last.op = "deleteImage" ->
         deleteImage(NullItem, last.preDemo, last.id)

C9_CorruptCacheRecovered ==
  ReadsCacheFromCorrupt =>
    /\ last.error # "SyntaxError"
    /\ last.outcome = "rejected" =>
          (last.op = "updateImageLabel" /\ last.error = "Image not found")
    /\ localStorage.kind = "json"
    /\ last.outcome = OnAbsentCache.outcome
    /\ last.ret = OnAbsentCache.ret
    /\ localStorage = OnAbsentCache.store
    /\ DEMO_IMAGES = OnAbsentCache.demo
    /\ last.op = "initializeData" =>
          (last.ret = DemoSet /\ Persisted(localStorage) = DemoSet)

C9_Witness ==
  /\ last.pre.kind = "corrupt"
  /\ last.op = "initializeData"
  /\ last.outcome = "resolved"
  /\ Len(last.ret) = 6

(***************************************************************************)
(* C10: ids are unique within the persisted snapshot: every addImage       *)
(* returns a record whose id differs from the id of every record already   *)
(* in the snapshot, also of records added at the same clock value, appends *)
(* it as the last record and persists it.                                  *)
(***************************************************************************)
UniqueIds(images) ==
  \A i, j \in 1..Len(images) : images[i].id = images[j].id => i = j

C10_IdsUnique ==
  /\ localStorage.kind = "json" => UniqueIds(Persisted(localStorage))
  /\ last.op = "addImage" =>
        /\ last.outcome = "resolved"
        /\ last.ret[1].id \notin IdsOf(CacheBacked(last.pre, last.preDemo))
        /\ localStorage.kind = "json"
        /\ Persisted(localStorage) =
              Append(CacheBacked(last.pre, last.preDemo), last.ret[1])

(***************************************************************************)
(* C11: deleteImage(id) never fails and is idempotent: afterwards the      *)
(* persisted snapshot has no record with that id and has every other       *)
(* record of the prior snapshot in the same order; a second deleteImage of *)
(* the same id, or a deleteImage of an id that was not present, leaves the *)
(* persisted snapshot unchanged.                                           *)
(***************************************************************************)
RECURSIVE Others(_, _)
Others(images, id) ==
  IF images = <<>> THEN <<>>
  ELSE (IF Head(images).id = id THEN <<>> ELSE <<Head(images)>>)
       \o Others(Tail(images), id)

C11_DeleteIdempotent ==
  last.op = "deleteImage" =>
    LET before == CacheBacked(last.pre, last.preDemo)
    IN  /\ last.outcome = "resolved"
        /\ localStorage.kind = "json"
        /\ last.id \notin IdsOf(Persisted(localStorage))
        /\ Persisted(localStorage) = Others(before, last.id)
        /\ last.id \notin IdsOf(before) => Persisted(localStorage) = before
        /\ (last.prev.op = "deleteImage" /\ last.prev.id = last.id) =>
              (last.pre.kind = "json" /\ localStorage = last.pre)

C11_Witness ==
  /\ last.op = "deleteImage"
  /\ last.prev.op = "deleteImage"
  /\ last.prev.id = last.id
  /\ Len(Persisted(localStorage)) > 0
  /\ last.id \in IdsOf(last.preDemo)

(***************************************************************************)
(* C16: in Demo mode local edits survive refresh: after a successful       *)
(* updateLabel(id, L), every later fetchImages returns a snapshot in which *)
(* the record with that id has label L, until a later updateLabel of the   *)
(* same id, a deleteImage of that id or a resetToDemo.                     *)
(***************************************************************************)
C16_DemoEditsSurviveRefresh ==
  (last.op = "fetchImages" /\ last.preConfig.useMockData) =>
    \A id \in Ids :
       kept[id] # "" =>
         /\ last.outcome = "resolved"
         /\ id \in IdsOf(last.ret)
         /\ LabelOf(last.ret, id) = kept[id]

C16_Witness ==
  /\ last.op = "fetchImages"
  /\ last.preConfig.useMockData
  /\ last.prev.op # "updateImageLabel"
  /\ \E id \in Ids : kept[id] # "" /\ LabelOf(DemoSet, id) # kept[id]

(***************************************************************************)
(* C19: every record the service hands out can be edited: for every id in  *)
(* the snapshot most recently returned by fetchImages, in Demo and Remote  *)
(* mode alike, updateLabel(id, L) does not fail with a not-found error and *)
(* changes the record with that id that was returned, not a different      *)
(* record of an older cached snapshot.                                     *)
(***************************************************************************)
C19_FetchedRecordsEditable ==
  (/\ last.op = "updateImageLabel"
   /\ last.prev.op = "fetchImages"
   /\ last.id \in IdsOf(last.prev.fetched)) =>
    /\ last.outcome = "resolved"
    /\ localStorage.kind = "json"
    /\ last.id \in IdsOf(Persisted(localStorage))
    /\ LET shown == last.prev.fetched[FirstWithId(last.prev.fetched, last.id)]
           saved == Persisted(localStorage)[FirstWithId(Persisted(localStorage), last.id)]
       IN  saved = [shown EXCEPT !.label = last.label]


(***************************************************************************)
(* C15.  The records a body denotes: line k after the header (k from 1,    *)
(* every line counted) yields a record exactly when it is a row whose      *)
(* second cell denotes a non-empty value beginning with http; its id is    *)
(* the first cell's value or, when that is empty, k; its label the third   *)
(* cell's value or, when that is empty or missing, "Untitled".             *)
(***************************************************************************)
RecordOf(line, k) ==
  IF /\ line.kind = "row"
     /\ Len(line.row) >= 2
     /\ line.row[2].val # ""
     /\ line.row[2].http
  THEN << Img(IF line.row[1].val = "" THEN ToString(k) ELSE line.row[1].val,
              line.row[2].val,
              IF Len(line.row) >= 3 /\ line.row[3].val # ""
              THEN line.row[3].val ELSE "Untitled") >>
  ELSE <<>>

RECURSIVE RecordsFrom(_, _)
RecordsFrom(doc, k) ==
  IF k > Len(doc) THEN <<>> ELSE RecordOf(doc[k], k) \o RecordsFrom(doc, k + 1)

\* C15: parseCSV returns, for every body of a header and data lines, exactly
\* the records the lines denote, in source order: header discarded, blank
\* lines skipped, rows without an http second field dropped, empty id
\* replaced by the line's 1-based position after the header, empty label
\* replaced by "Untitled".
C15_ParseAgreesWithReference ==
  csv.phase = "parsed" => csv.images = RecordsFrom(csv.doc, 1)

\* a parsed body with a blank line, a dropped row, and after them an
\* accepted row whose id and label were both defaulted
C15_Witness ==
  /\ csv.phase = "parsed"
  /\ Len(csv.doc) = 3
  /\ csv.doc[1].kind = "blank"
  /\ csv.doc[2].kind = "row" /\ RecordOf(csv.doc[2], 2) = <<>>
  /\ csv.images = <<Img("3", "http", "Untitled")>>


(***************************************************************************)
(* C17: two updateLabel calls on different existing ids that overlap (the  *)
(* second issued while the first is in flight): when either completes, the *)
(* persisted snapshot holds that call's label for its id; and every value  *)
(* a call persisted is a complete well-formed snapshot.                    *)
(***************************************************************************)
IsUpdate(c) == c.op = "updateImageLabel" /\ c.outcome # "rejected"

Overlapping(i, j) ==
  /\ i \in conc.calls[j].during
  /\ IsUpdate(conc.calls[i])
  /\ IsUpdate(conc.calls[j])
  /\ conc.calls[i].id # conc.calls[j].id

LandedAtCompletion(c) ==
  c.pc = "done" =>
    /\ c.atDone.kind = "json"
    /\ c.id \in IdsOf(Persisted(c.atDone))
    /\ LabelOf(Persisted(c.atDone), c.id) = c.label

C17_OverlappingUpdatesEachLand ==
  /\ \A i, j \in 1..Len(conc.calls) :
        Overlapping(i, j) =>
          LandedAtCompletion(conc.calls[i]) /\ LandedAtCompletion(conc.calls[j])
  /\ \A k \in 1..Len(conc.calls) :
        conc.calls[k].wrote.kind # "null" =>
          conc.calls[k].wrote.kind = "json" /\ IsSnapshot(Persisted(conc.calls[k].wrote))

(***************************************************************************)
(* C18: an updateLabel, addImage or deleteImage that had read the cache    *)
(* and not yet written it when resetToDemo ran does not undo the reset:    *)
(* once it has completed, the next initialize (no other call issued since  *)
(* the reset) returns the built-in demo set.                               *)
(***************************************************************************)
C18_ResetNotUndoneByInFlight ==
  \A k \in 1..Len(conc.calls) :
     LET c == conc.calls[k]
     IN  (/\ c.op = "initializeData"
          /\ c.resets > 0
          /\ c.racedDone
          /\ c.sinceReset = 0) => c.ret = DemoSet

(***************************************************************************)
(* The page: Index (images, loading, loadImages, handleUpdateLabel,        *)
(* handleUpdateComments), ImageGallery (selectedImage, refreshing,         *)
(* handleRefresh), GoogleSheetsSetup (handleSubmit, handleUseDemo),        *)
(* ImageCard and ImageModal, on top of the service.  A handler runs as one *)
(* step up to the point where it waits on a timer or on the network; what  *)
(* follows the wait is a step of its own.  A rejection by the service      *)
(* reaches the editor's catch block within the step of the call, since     *)
(* nothing on that path waits on a timer.                                  *)
(***************************************************************************)
Lower ==
  {"a", "b", "c", "d", "e", "f", "g", "h", "i", "j", "k", "l", "m",
   "n", "o", "p", "q", "r", "s", "t", "u", "v", "w", "x", "y", "z"}
Upper ==
  {"A", "B", "C", "D", "E", "F", "G", "H", "I", "J", "K", "L", "M",
   "N", "O", "P", "Q", "R", "S", "T", "U", "V", "W", "X", "Y", "Z"}
Digits == {"0", "1", "2", "3", "4", "5", "6", "7", "8", "9"}

\* [a-zA-Z0-9-_]
SheetIdChars == Lower \cup Upper \cup Digits \cup {"-", "_"}

\* \/spreadsheets\/d\/
Marker ==
  <<"/", "s", "p", "r", "e", "a", "d", "s", "h", "e", "e", "t", "s", "/", "d", "/">>

\* the pattern /\/spreadsheets\/d\/([a-zA-Z0-9-_]+)/ matches at position p
matchesAt(url, p) ==
  /\ p + Len(Marker) <= Len(url)
  /\ SubSeq(url, p, p + Len(Marker) - 1) = Marker
  /\ url[p + Len(Marker)] \in SheetIdChars

\* the longest run of id characters starting at position p
RECURSIVE capture(_, _)
capture(url, p) ==
  IF p <= Len(url) /\ url[p] \in SheetIdChars
  THEN <<url[p]>> \o capture(url, p + 1)
  ELSE <<>>

\* variant: the id is taken from behind the first occurrence of the marker
\* text, whether or not an id character follows it
match_firstMarker(url) ==
  IF \E p \in 1..Len(url) : p + Len(Marker) - 1 <= Len(url)
                              /\ SubSeq(url, p, p + Len(Marker) - 1) = Marker
  THEN LET p == CHOOSE p \in 1..Len(url) :
                   /\ p + Len(Marker) - 1 <= Len(url)
                   /\ SubSeq(url, p, p + Len(Marker) - 1) = Marker
                   /\ \A q \in 1..(p-1) : SubSeq(url, q, q + Len(Marker) - 1) # Marker
       IN  [found |-> TRUE, sheetId |-> capture(url, p + Len(Marker))]
  ELSE [found |-> FALSE, sheetId |-> <<>>]

\* url.match(...): the leftmost match and its group 1
match(url) ==
  IF \E p \in 1..Len(url) : matchesAt(url, p)
  THEN LET p == CHOOSE p \in 1..Len(url) :
                   matchesAt(url, p) /\ \A q \in 1..(p-1) : ~matchesAt(url, q)
       IN  [found |-> TRUE, sheetId |-> capture(url, p + Len(Marker))]
  ELSE [found |-> FALSE, sheetId |-> <<>>]

convertToCSVUrl(url) ==
  LET m == match(url)
  IN  IF ~m.found
      THEN [threw |-> TRUE, csvUrl |-> ""]
      ELSE [threw |-> FALSE,
            csvUrl |-> "https://docs.google.com/spreadsheets/d/e/"
                          \o Str(m.sheetId) \o "/pub?output=csv"]

\* texts typed into the URL field, each with the sheet id it carries
\* ("" when it carries none)
UrlText(text, sheetId) == [text |-> text, sheetId |-> sheetId]

UrlTexts ==
  { UrlText(<<>>, ""),
    UrlText(<<" ">>, ""),
    UrlText(<<"a", "b">>, ""),
    UrlText(Marker, ""),
    UrlText(Marker \o <<"/", "x">>, ""),
    UrlText(Tail(Marker) \o <<"a", "b", "c">>, ""),
    UrlText(<<"g">> \o Marker \o <<"a", "b", "c", "/", "e", "d", "i", "t">>, "abc"),
    UrlText(<<" ">> \o Marker \o Marker \o <<"a", "b", "c", "#", "Z">>, "abc") }

\* what the request of a load may come back with
UiResponses == {TransportFailure, HttpError, Ok(BodyB)}

\* the records on display and the one record with a given id among them
Shown(id) == ui.images[FirstWithId(ui.images, id)]

\* image.comments || ''
commentsOr(image) == IF "comments" \in DOMAIN image THEN image.comments ELSE ""

\* the cards React mounts for a list: one per id, in their initial state
mountCards(images) ==
  [id \in UiIds |->
     IF id \in IdsOf(images)
     THEN CardState(FALSE, images[FirstWithId(images, id)].label, FALSE)
     ELSE NoCard]

\* the modal React mounts for selectedImage, if any
mountModal(selected) ==
  IF selected = <<>> THEN NoModal
  ELSE ModalState(FALSE, FALSE, selected[1].label, commentsOr(selected[1]), FALSE)

\* editors that are unmounted no longer take the state updates of the
\* calls they have in flight
orphan(updates) == [k \in 1..Len(updates) |-> [updates[k] EXCEPT !.live = FALSE]]

Event(op, editor, id, label, outcome, sheetId, shown, updating, toast) ==
  [op |-> op, editor |-> editor, id |-> id, label |-> label, outcome |-> outcome,
   sheetId |-> sheetId,
   images |-> IF outcome = "failed" THEN ui.images ELSE <<>>,
   selected |-> IF outcome = "failed" THEN ui.selected ELSE <<>>,
   shown |-> shown,
   config |-> IF op = "handleSubmit" THEN config ELSE NoEvent.config,
   loads |-> IF op = "handleSubmit" THEN Len(ui.loads) ELSE 0,
   updating |-> updating, toast |-> toast]

\* variant: the load begins without the loading view; the header, the cards
\* and the modal stay on the page
beginLoad_noGate(page, cfg, refresh) ==
  [page EXCEPT
     !.refreshing = IF refresh THEN TRUE ELSE @,
     !.loads = Append(@, [useMockData |-> cfg.useMockData,
                          sheetUrl |-> cfg.sheetUrl, refresh |-> refresh]),
     !.nRequests = @ + 1]

\* loadImages up to `await googleSheetsService.fetchImages()`: setLoading(true)
\* takes the header, the cards and the modal off the page; fetchImages has
\* read the configuration and begun its wait
beginLoad(page, cfg, refresh) ==
  [page EXCEPT
     !.loading = TRUE,
     !.refreshing = IF refresh THEN TRUE ELSE @,
     !.loads = Append(@, [useMockData |-> cfg.useMockData,
                          sheetUrl |-> cfg.sheetUrl, refresh |-> refresh]),
     !.cards = [id \in UiIds |-> NoCard],
     !.modal = NoModal,
     !.updates = orphan(@),
     !.nRequests = @ + 1]

\* the rest of loadImages, then of handleRefresh: fetchImages settles,
\* setImages, setLoading(false), toast, setRefreshing(false)
LoadSettles ==
  /\ ui.loads # <<>>
  /\ \E k \in 1..Len(ui.loads) :
       \E net \in (IF ui.loads[k].useMockData \/ ui.loads[k].sheetUrl = ""
                   THEN {NoRequest} ELSE UiResponses) :
          LET load == ui.loads[k]
              res == fetchImages(load, localStorage, DEMO_IMAGES, net)
              others == [j \in 1..(Len(ui.loads) - 1) |->
                           IF j < k THEN ui.loads[j] ELSE ui.loads[j + 1]]
          IN  /\ localStorage' = res.store
              /\ DEMO_IMAGES' = res.demo
              /\ ui' = [ui EXCEPT
                    !.images = IF res.outcome = "resolved" THEN res.ret ELSE @,
                    !.loading = FALSE,
                    !.refreshing = IF load.refresh THEN FALSE ELSE @,
                    !.loads = others,
                    !.cards = IF ui.loading
                              THEN mountCards(IF res.outcome = "resolved" THEN res.ret ELSE ui.images)
                              ELSE @,
                    !.modal = IF ui.loading THEN mountModal(ui.selected) ELSE @,
                    !.ev = NoEvent]
  /\ UNCHANGED <<config, now, last, nCalls, kept, csv, conc>>

\* ImageGallery.handleRefresh from the Refresh button (disabled={refreshing})
ClickRefresh ==
  /\ ~ui.loading
  /\ ~ui.refreshing
  /\ ui.nRequests < MaxRequests
  /\ ui' = [beginLoad(ui, config, TRUE) EXCEPT
              !.ev = NoEvent]
  /\ UNCHANGED <<serviceVars, csv, conc>>

\* GoogleSheetsSetup.handleSubmit
HandleSubmit ==
  /\ ~ui.loading
  /\ ui.nRequests < MaxRequests
  /\ \E typed \in UrlTexts :
       LET r == convertToCSVUrl(typed.text)
       IN  IF trim(typed.text) = <<>> \/ r.threw
           THEN /\ ui' = [ui EXCEPT
                      !.ev = Event("handleSubmit", "", "", "", "invalid",
                                   typed.sheetId, "", FALSE, "Invalid URL")]
                /\ UNCHANGED config
           ELSE /\ config' = setSheetUrl(config, r.csvUrl)
                /\ ui' = [beginLoad(ui, setSheetUrl(config, r.csvUrl), TRUE) EXCEPT
                      !.ev = Event("handleSubmit", "", "", "", "saved",
                                   typed.sheetId, "", FALSE, "Configuration saved")]
  /\ UNCHANGED <<localStorage, DEMO_IMAGES, now, last, nCalls, kept, csv, conc>>

\* GoogleSheetsSetup.handleUseDemo
HandleUseDemo ==
  /\ ~ui.loading
  /\ ui.nRequests < MaxRequests
  /\ config' = resetToDemo(config)
  /\ localStorage' = NullItem
  /\ ui' = [beginLoad(ui, resetToDemo(config), TRUE) EXCEPT
              !.ev = NoEvent]
  /\ UNCHANGED <<DEMO_IMAGES, now, last, nCalls, kept, csv, conc>>

\* texts typed into the label and comments fields
TypedLabels == {" A"}
TypedComments == {"c"}

\* String.prototype.trim on the texts that occur here: of the typed texts
\* and the labels and comments of the records, only " A" has white space
\* at an end
trimText(text) == IF text = " A" THEN "A" ELSE text

\* Index.handleUpdateLabel up to the end of the service's own steps: the
\* service's rejection is replaced by 'Failed to update label'
handleUpdateLabel(stored, demo, id, newLabel) ==
  LET r == updateImageLabel(stored, demo, id, newLabel)
  IN  IF r.outcome = "rejected"
      THEN Rejected("Failed to update label", r.store, r.demo)
      ELSE r

\* setImages(prev => prev.map(img => img.id === id ? {...img, label} : img))
mapLabel(images, id, newLabel) ==
  [k \in 1..Len(images) |->
     IF images[k].id = id THEN [images[k] EXCEPT !.label = newLabel] ELSE images[k]]

\* setImages(prev => prev.map(img => img.id === id ? {...img, comments} : img))
mapComments(images, id, newComments) ==
  [k \in 1..Len(images) |->
     IF images[k].id = id
     THEN [f \in DOMAIN images[k] \cup {"comments"} |->
             IF f = "comments" THEN newComments ELSE images[k][f]]
     ELSE images[k]]

CardMounted(id) == ~ui.loading /\ id \in IdsOf(ui.images)

ModalMounted == ~ui.loading /\ ui.selected # <<>>

\* an update call an editor has issued and that waits on the 500 ms timer
InFlightUpdate(editor, id, label) ==
  [editor |-> editor, id |-> id, label |-> label, live |-> TRUE]

\* ImageCard.handleLabelDoubleClick
HandleLabelDoubleClick ==
  \E id \in UiIds :
     /\ CardMounted(id)
     /\ ~ui.cards[id].isEditing
     /\ ui' = [ui EXCEPT !.cards[id].isEditing = TRUE,
                         !.ev = NoEvent]
     /\ UNCHANGED <<serviceVars, csv, conc>>

\* ImageCard: Input onChange
CardOnChange ==
  \E id \in UiIds, text \in TypedLabels :
     /\ CardMounted(id)
     /\ ui.cards[id].isEditing
     /\ ui.cards[id].editedLabel # text
     /\ ui' = [ui EXCEPT !.cards[id].editedLabel = text,
                         !.ev = NoEvent]
     /\ UNCHANGED <<serviceVars, csv, conc>>

\* variant: the catch block leaves the edit buffer as typed
cardCatch_keepBuffer(card, image) == [card EXCEPT !.isUpdating = FALSE]

\* ImageCard.handleSave: catch and finally
cardCatch(card, image) ==
  [card EXCEPT !.editedLabel = image.label, !.isUpdating = FALSE]

\* ImageCard.handleSave, from the Save button (disabled={isUpdating}) or
\* from the Enter key in the input
CardHandleSave ==
  \E id \in UiIds, control \in {"button", "enter"} :
     /\ CardMounted(id)
     /\ ui.cards[id].isEditing
     /\ control = "button" => ~ui.cards[id].isUpdating
     /\ LET image == Shown(id)
            card == ui.cards[id]
            newLabel == trimText(card.editedLabel)
            res == handleUpdateLabel(localStorage, DEMO_IMAGES, image.id, newLabel)
        IN  IF newLabel = image.label
            THEN /\ ui' = [ui EXCEPT !.cards[id].isEditing = FALSE,
                                     !.ev = Event("handleSave", "card", id, newLabel,
                                                  "same", "", image.label, card.isUpdating, "")]
                 /\ UNCHANGED <<localStorage, DEMO_IMAGES>>
            ELSE /\ ui.nRequests < MaxRequests
                 /\ localStorage' = res.store
                 /\ DEMO_IMAGES' = res.demo
                 /\ IF res.outcome = "rejected"
                    THEN ui' = [ui EXCEPT
                           !.cards[id] = cardCatch(card, image),
                           !.ev = Event("handleSave", "card", id, newLabel,
                                        "failed", "", image.label, card.isUpdating, "Update failed")]
                    ELSE ui' = [ui EXCEPT
                           !.cards[id].isUpdating = TRUE,
                           !.updates = Append(@, InFlightUpdate("card", image.id, newLabel)),
                           !.nRequests = @ + 1,
                           !.ev = Event("handleSave", "card", id, newLabel,
                                        "started", "", image.label, card.isUpdating, "")]
     /\ UNCHANGED <<config, now, last, nCalls, kept, csv, conc>>

\* ImageCard.handleCancel, from the X button (disabled={isUpdating}) or
\* from the Escape key in the input
CardHandleCancel ==
  \E id \in UiIds, control \in {"button", "escape"} :
     /\ CardMounted(id)
     /\ ui.cards[id].isEditing
     /\ control = "button" => ~ui.cards[id].isUpdating
     /\ ui' = [ui EXCEPT !.cards[id].editedLabel = Shown(id).label,
                         !.cards[id].isEditing = FALSE,
                         !.ev = NoEvent]
     /\ UNCHANGED <<serviceVars, csv, conc>>

\* ImageCard onImageClick: setSelectedImage(image).  A modal already on
\* the page stays mounted; its effect on [image.label, image.comments]
\* resets the buffers when either differs
OnImageClick ==
  \E id \in UiIds :
     /\ CardMounted(id)
     /\ ui.selected # <<Shown(id)>>
     /\ LET image == Shown(id)
        IN  ui' = [ui EXCEPT
              !.selected = <<image>>,
              !.modal = IF ui.selected = <<>> THEN mountModal(<<image>>)
                        ELSE IF ui.selected[1].label # image.label
                                \/ commentsOr(ui.selected[1]) # commentsOr(image)
                        THEN [@ EXCEPT !.editedLabel = image.label,
                                       !.editedComments = commentsOr(image)]
                        ELSE @,
              !.ev = NoEvent]
     /\ UNCHANGED <<serviceVars, csv, conc>>

\* ImageModal: click on the label / on the comments
ModalBeginEdit ==
  \E field \in {"label", "comments"} :
     /\ ModalMounted
     /\ IF field = "label" THEN ~ui.modal.isEditingLabel ELSE ~ui.modal.isEditingComments
     /\ ui' = [ui EXCEPT
           !.modal.isEditingLabel = IF field = "label" THEN TRUE ELSE @,
           !.modal.isEditingComments = IF field = "comments" THEN TRUE ELSE @,
           !.ev = NoEvent]
     /\ UNCHANGED <<serviceVars, csv, conc>>

\* ImageModal: Input onChange / Textarea onChange
ModalOnChange ==
  /\ ModalMounted
  /\ \/ \E text \in TypedLabels :
          /\ ui.modal.isEditingLabel
          /\ ui.modal.editedLabel # text
          /\ ui' = [ui EXCEPT !.modal.editedLabel = text,
                              !.ev = NoEvent]
     \/ \E text \in TypedComments :
          /\ ui.modal.isEditingComments
          /\ ui.modal.editedComments # text
          /\ ui' = [ui EXCEPT !.modal.editedComments = text,
                              !.ev = NoEvent]
  /\ UNCHANGED <<serviceVars, csv, conc>>

\* ImageModal.handleSaveLabel: catch and finally
modalCatchLabel(modal, image) ==
  [modal EXCEPT !.editedLabel = image.label, !.isUpdating = FALSE]

\* ImageModal.handleSaveComments: catch and finally
modalCatchComments(modal, image) ==
  [modal EXCEPT !.editedComments = commentsOr(image), !.isUpdating = FALSE]

\* ImageModal.handleSaveLabel, from the Save button (disabled={isUpdating})
\* or from the Enter key in the input
HandleSaveLabel ==
  \E control \in {"button", "enter"} :
     /\ ModalMounted
     /\ ui.modal.isEditingLabel
     /\ control = "button" => ~ui.modal.isUpdating
     /\ LET image == ui.selected[1]
            newLabel == trimText(ui.modal.editedLabel)
            res == handleUpdateLabel(localStorage, DEMO_IMAGES, image.id, newLabel)
        IN  IF newLabel = image.label
            THEN /\ ui' = [ui EXCEPT !.modal.isEditingLabel = FALSE,
                                     !.ev = Event("handleSaveLabel", "modal", image.id, newLabel,
                                                  "same", "", image.label, ui.modal.isUpdating, "")]
                 /\ UNCHANGED <<localStorage, DEMO_IMAGES>>
            ELSE /\ ui.nRequests < MaxRequests
                 /\ localStorage' = res.store
                 /\ DEMO_IMAGES' = res.demo
                 /\ IF res.outcome = "rejected"
                    THEN ui' = [ui EXCEPT
                           !.modal = modalCatchLabel(ui.modal, image),
                           !.ev = Event("handleSaveLabel", "modal", image.id, newLabel,
                                        "failed", "", image.label, ui.modal.isUpdating, "Update failed")]
                    ELSE ui' = [ui EXCEPT
                           !.modal.isUpdating = TRUE,
                           !.updates = Append(@, InFlightUpdate("modal", image.id, newLabel)),
                           !.nRequests = @ + 1,
                           !.ev = Event("handleSaveLabel", "modal", image.id, newLabel,
                                        "started", "", image.label, ui.modal.isUpdating, "")]
     /\ UNCHANGED <<config, now, last, nCalls, kept, csv, conc>>

\* ImageModal.handleSaveComments, from the Save button (disabled={isUpdating})
HandleSaveComments ==
  /\ ModalMounted
  /\ ui.modal.isEditingComments
  /\ ~ui.modal.isUpdating
  /\ LET image == ui.selected[1]
         newComments == trimText(ui.modal.editedComments)
         res == handleUpdateComments(localStorage, DEMO_IMAGES, image.id, newComments)
     IN  IF newComments = commentsOr(image)
         THEN /\ ui' = [ui EXCEPT !.modal.isEditingComments = FALSE,
                                  !.ev = Event("handleSaveComments", "modal", image.id, newComments,
                                               "same", "", commentsOr(image), FALSE, "")]
              /\ UNCHANGED <<localStorage, DEMO_IMAGES>>
         ELSE /\ localStorage' = res.store
              /\ DEMO_IMAGES' = res.demo
              /\ IF res.outcome = "rejected"
                 THEN ui' = [ui EXCEPT
                        !.modal = modalCatchComments(ui.modal, image),
                        !.ev = Event("handleSaveComments", "modal", image.id, newComments,
                                     "failed", "", commentsOr(image), FALSE, "Update failed")]
                 ELSE ui' = [ui EXCEPT
                        !.images = mapComments(@, image.id, newComments),
                        !.modal.isEditingComments = FALSE,
                        !.ev = Event("handleSaveComments", "modal", image.id, newComments,
                                     "saved", "", commentsOr(image), FALSE, "Comments updated")]
  /\ UNCHANGED <<config, now, last, nCalls, kept, csv, conc>>

\* ImageModal.handleCancelLabel / handleCancelComments, from the X button
\* (disabled={isUpdating}) or from the Escape key in the field
ModalHandleCancel ==
  \E field \in {"label", "comments"}, control \in {"button", "escape"} :
     /\ ModalMounted
     /\ IF field = "label" THEN ui.modal.isEditingLabel ELSE ui.modal.isEditingComments
     /\ control = "button" => ~ui.modal.isUpdating
     /\ ui' = [ui EXCEPT
           !.modal = IF field = "label"
                     THEN [@ EXCEPT !.editedLabel = ui.selected[1].label,
                                    !.isEditingLabel = FALSE]
                     ELSE [@ EXCEPT !.editedComments = commentsOr(ui.selected[1]),
                                    !.isEditingComments = FALSE],
           !.ev = NoEvent]
     /\ UNCHANGED <<serviceVars, csv, conc>>

\* the modal's calls in flight lose their editor
orphanModal(updates) ==
  [k \in 1..Len(updates) |->
     IF updates[k].editor = "modal" THEN [updates[k] EXCEPT !.live = FALSE] ELSE updates[k]]

\* ImageGallery onClose: setSelectedImage(null); from the Escape key when no
\* field is being edited, or from the dialog's own close control
OnClose ==
  \E control \in {"escape", "dialog"} :
     /\ ModalMounted
     /\ control = "escape" => ~ui.modal.isEditingLabel /\ ~ui.modal.isEditingComments
     /\ ui' = [ui EXCEPT
           !.selected = <<>>,
           !.modal = NoModal,
           !.updates = orphanModal(@),
           !.ev = NoEvent]
     /\ UNCHANGED <<serviceVars, csv, conc>>

\* variant: handleSave without its finally block
settleCard_noFinally(cards, u) ==
  IF u.live /\ u.editor = "card" /\ u.id \in UiIds
  THEN [cards EXCEPT ![u.id] = [@ EXCEPT !.isEditing = FALSE]]
  ELSE cards

\* the editor's state after its call has resolved: setIsEditing(false),
\* then finally setIsUpdating(false); an editor no longer mounted takes
\* neither
settleCard(cards, u) ==
  IF u.live /\ u.editor = "card" /\ u.id \in UiIds
  THEN [cards EXCEPT ![u.id] = [@ EXCEPT !.isEditing = FALSE, !.isUpdating = FALSE]]
  ELSE cards

settleModal(modal, u) ==
  IF u.live /\ u.editor = "modal"
  THEN [modal EXCEPT !.isEditingLabel = FALSE, !.isUpdating = FALSE]
  ELSE modal

\* the 500 ms timer of the earliest update call fires: updateImageLabel
\* resolves, Index.handleUpdateLabel runs setImages, the editor's
\* handleSave goes on after its await
UpdateSettles ==
  /\ ui.updates # <<>>
  /\ LET u == Head(ui.updates)
     IN  ui' = [ui EXCEPT
           !.images = mapLabel(@, u.id, u.label),
           !.cards = settleCard(@, u),
           !.modal = settleModal(@, u),
           !.updates = Tail(@),
           !.ev = Event("updateSettles", u.editor, u.id, u.label,
                        IF u.live THEN "live" ELSE "orphan", "", "", FALSE, "Label updated")]
  /\ UNCHANGED <<serviceVars, csv, conc>>

InitUI ==
  /\ ui = PageMounted
  /\ csv = NoText
  /\ conc = NoCalls
  /\ config = [useMockData |-> TRUE, sheetUrl |-> ""]
  /\ localStorage \in InitialItems
  /\ DEMO_IMAGES = DemoSet
  /\ now = Epoch
  /\ last = NoCall
  /\ nCalls = 0
  /\ kept = NoneKept

NextUI ==
  \/ LoadSettles
  \/ ClickRefresh
  \/ HandleSubmit
  \/ HandleUseDemo
  \/ HandleLabelDoubleClick
  \/ CardOnChange
  \/ CardHandleSave
  \/ CardHandleCancel
  \/ OnImageClick
  \/ ModalBeginEdit
  \/ ModalOnChange
  \/ HandleSaveLabel
  \/ HandleSaveComments
  \/ ModalHandleCancel
  \/ OnClose
  \/ UpdateSettles

SpecUI == InitUI /\ [][NextUI]_vars

\* SpecUI with the requests and timers it waits on completing: a fetch in
\* flight settles (the 800 ms wait of the demo mode, or the network request
\* and the parse that follows it), and the 500 ms timer of an update fires
SpecUILive ==
  /\ SpecUI
  /\ WF_vars(LoadSettles)
  /\ WF_vars(UpdateSettles)


(***************************************************************************)
(* C12: configuring a remote endpoint is all-or-nothing.  For a URL text   *)
(* that is blank or carries no /spreadsheets/d/<SHEET_ID>, handleSubmit    *)
(* fails: the service configuration is as before, no load is started and   *)
(* the failure is notified.  For a text that carries a sheet id the        *)
(* configuration is Remote with the endpoint                               *)
(* https://docs.google.com/spreadsheets/d/e/<SHEET_ID>/pub?output=csv,     *)
(* which depends on the text alone.                                        *)
(***************************************************************************)
PublishedCsvUrl(sheetId) ==
  "https://docs.google.com/spreadsheets/d/e/" \o sheetId \o "/pub?output=csv"

C12_ConfigureAllOrNothing ==
  ui.ev.op = "handleSubmit" =>
    IF ui.ev.sheetId = ""
    THEN /\ ui.ev.outcome = "invalid"
         /\ ui.ev.toast = "Invalid URL"
         /\ config = ui.ev.config
         /\ Len(ui.loads) = ui.ev.loads
         /\ ~ui.loading
    ELSE /\ ui.ev.outcome = "saved"
         /\ config = [useMockData |-> FALSE, sheetUrl |-> PublishedCsvUrl(ui.ev.sheetId)]

\* a rejected text, submitted while a remote endpoint was configured
C12_Witness ==
  /\ ui.ev.op = "handleSubmit"
  /\ ui.ev.outcome = "invalid"
  /\ config = [useMockData |-> FALSE, sheetUrl |-> Endpoint]

(***************************************************************************)
(* C13: when a label or comments edit fails, the values on display are the *)
(* pre-edit ones (the grid's list and the modal's record are as before the *)
(* edit, for the edited record and for every other), the editor's buffer   *)
(* is back at the value on display in that editor, and a failure is        *)
(* notified.                                                               *)
(***************************************************************************)
EditFailed == ui.ev.outcome = "failed"

C13_FailedEditRollsBack ==
  EditFailed =>
    /\ ui.images = ui.ev.images
    /\ ui.selected = ui.ev.selected
    /\ ui.ev.toast = "Update failed"
    /\ ui.ev.op = "handleSave" =>
          ui.cards[ui.ev.id].editedLabel = LabelOf(ui.images, ui.ev.id)
    /\ ui.ev.op = "handleSaveLabel" => ui.modal.editedLabel = ui.selected[1].label
    /\ ui.ev.op = "handleSaveComments" =>
          ui.modal.editedComments = commentsOr(ui.selected[1])

\* a label edit made from a card fails with two records on display
C13_Witness ==
  /\ EditFailed
  /\ ui.ev.op = "handleSave"
  /\ Len(ui.images) >= 2
  /\ ui.ev.label # LabelOf(ui.images, ui.ev.id)

(***************************************************************************)
(* C14: when a label edit has succeeded and its save has completed, every  *)
(* view showing the record shows the new label: its card in the grid and   *)
(* the modal, if the modal is open on that record.                         *)
(***************************************************************************)
C14_SavedLabelShownEverywhere ==
  (ui.ev.op = "updateSettles" /\ ~ui.loading) =>
    /\ ui.ev.id \in IdsOf(ui.images) => LabelOf(ui.images, ui.ev.id) = ui.ev.label
    /\ (ui.selected # <<>> /\ ui.selected[1].id = ui.ev.id) =>
          ui.selected[1].label = ui.ev.label

(***************************************************************************)
(* C20: an editor has at most one update call in flight: no Save click and *)
(* no Enter key issues a call while the editor's isUpdating is true.       *)
(***************************************************************************)
CallsInFlight(editor, id) ==
  {k \in 1..Len(ui.updates) :
     ui.updates[k].editor = editor /\ ui.updates[k].id = id /\ ui.updates[k].live}

C20_OneUpdateInFlightPerEditor ==
  /\ \A editor \in {"card", "modal"}, id \in Ids :
        Cardinality(CallsInFlight(editor, id)) <= 1
  /\ ui.ev.outcome \in {"started", "failed"} => ~ui.ev.updating

(***************************************************************************)
(* C21: at most one fetchImages call issued by the page is in flight at    *)
(* any time.  From the moment a load starts until it ends, no control that *)
(* starts another load (Refresh, Connect Sheet, Use Demo Data) can be      *)
(* operated and no edit control of a card or of the modal can be operated. *)
(***************************************************************************)
LoadInFlight == ui.loads # <<>>

LoadControl == ClickRefresh \/ HandleSubmit \/ HandleUseDemo

EditControl ==
  \/ HandleLabelDoubleClick
  \/ CardOnChange
  \/ CardHandleSave
  \/ CardHandleCancel
  \/ ModalBeginEdit
  \/ ModalOnChange
  \/ HandleSaveLabel
  \/ HandleSaveComments
  \/ ModalHandleCancel

C21_OneLoadInFlight ==
  /\ Len(ui.loads) <= 1
  /\ LoadInFlight =>
       /\ ~ENABLED LoadControl
       /\ ~ENABLED EditControl

\* a load begun from a control of the page is in flight, and the page could
\* still issue requests were its controls on display
C21_Witness ==
  /\ LoadInFlight
  /\ ui.loads[1].refresh
  /\ ui.nRequests < MaxRequests
  /\ ui.images # <<>>

(***************************************************************************)
(* C22: busy flags always clear.  Whenever the page's loading flag, the    *)
(* gallery's refreshing flag or the isUpdating flag of a card or of the    *)
(* modal is true, it is eventually false again, given that the fetch in    *)
(* flight and the timers complete.  For a flag F, "F leads to ~F" is the   *)
(* same property as "always eventually ~F": at any instant either F is     *)
(* false already or it is true and must become false.                      *)
(***************************************************************************)
C22_BusyFlagsClear ==
  /\ []<>~ui.loading
  /\ []<>~ui.refreshing
  /\ \A id \in UiIds : []<>~ui.cards[id].isUpdating
  /\ []<>~ui.modal.isUpdating

\* a card's save has resolved on the mounted card after a load begun from
\* the page or an earlier save, and every busy flag is down
C22_Witness ==
  /\ ui.ev.op = "updateSettles"
  /\ ui.ev.editor = "card"
  /\ ui.ev.outcome = "live"
  /\ ui.nRequests = MaxRequests
  /\ ~ui.loading
  /\ ~ui.refreshing
  /\ \A id \in UiIds : ~ui.cards[id].isUpdating
====
